---------------------------- MODULE Spec2Model ----------------------------
(***************************************************************************)
(* A model of wool-store: the Store (src/src/store.js) and its PubSub      *)
(* router (src/unnamed/part_002, imported by the Store as ./pubsub.js).    *)
(*                                                                         *)
(* Spec runs the Store's operations one at a time: each action is one      *)
(* awaited call of a Store method, from its invocation to the settlement   *)
(* of its promise.  `last' records that call: its name, its arguments, the *)
(* StoreError it threw (if any), what it returned, and the callback        *)
(* invocations it made, in order.  nops counts the calls made so far; a    *)
(* run makes at most MaxOps calls.                                         *)
(*                                                                         *)
(* SpecFan follows one set, del or pub through the fan-out of PubSub.pub,  *)
(* step by step, with callbacks that may be asynchronous and may fail.     *)
(* `fan' is that call in flight: where it stands, the event it publishes,  *)
(* the invocations, completions and failures of callbacks so far, and how  *)
(* the call's promise settled.                                             *)
(*                                                                         *)
(* SpecCon runs two calls of set, del, sub and unsub concurrently.  An     *)
(* async function runs until its next await; `jobs' is the microtask       *)
(* queue, in which the continuation of every await waits for its turn;     *)
(* `calls' holds each call's position and what it read so far, `events'    *)
(* the callback invocations made, in order.                                *)
(*                                                                         *)
(* SpecFind runs find, next and findOne between set and del calls on a     *)
(* store without subscribers; `iters' holds the enumerators find returned. *)
(***************************************************************************)
EXTENDS Naturals, Sequences, FiniteSets

VARIABLES db, pubsub, last, nops, fan, calls, jobs, events, iters

vars == <<db, pubsub, last, nops, fan, calls, jobs, events, iters>>

\* the state of the calls that run concurrently (SpecCon)
conVars == <<calls, jobs, events>>

(***************************************************************************)
(* The universe of the model.  Keys, sources and values are JavaScript     *)
(* strings, so the three sets overlap on purpose: "a" is a key and a       *)
(* source name, "b" is a key and a value.                                  *)
(***************************************************************************)
Keys == {"a", "b"}

Sources == {"s", "a"}

Values == {"x", "b"}

Callbacks == {"cb1", "cb2"}

\* the number of calls of a run
MaxOps == 6

\* what Map.prototype.get returns for a key the Map does not hold
Undefined == "undefined"

\* placeholder of an argument the recorded call does not take
None == "-"

(***************************************************************************)
(* JavaScript's Map, as the sequence of its [key, value] entries in        *)
(* insertion order (the order Array.from and entries() enumerate).         *)
(***************************************************************************)
MapHas(m, k) == \E i \in 1..Len(m) : m[i][1] = k

MapIndex(m, k) == CHOOSE i \in 1..Len(m) : m[i][1] = k

MapGet(m, k) == IF MapHas(m, k) THEN m[MapIndex(m, k)][2] ELSE Undefined

\* faulty variant: set of a key the Map holds keeps the old value
MapSetKeepsOld(m, k, v) == IF MapHas(m, k) THEN m ELSE Append(m, <<k, v>>)

\* faulty variant: an overwritten key moves behind the other keys
MapSetMovesLast(m, k, v) == Append(SelectSeq(m, LAMBDA e : e[1] # k), <<k, v>>)

\* set of a key the Map holds overwrites the value in place; a new key goes last
MapSet(m, k, v) ==
    IF MapHas(m, k)
    THEN [m EXCEPT ![MapIndex(m, k)] = <<k, v>>]
    ELSE Append(m, <<k, v>>)

MapDelete(m, k) == SelectSeq(m, LAMBDA e : e[1] # k)

(***************************************************************************)
(* The two outer Maps of the router (k_src_cb, src_ks) are never           *)
(* enumerated and never lose an entry: functions with a growing domain.    *)
(***************************************************************************)
EmptyFcn == [x \in {} |-> <<>>]

FcnSet(f, k, v) == [x \in (DOMAIN f) \cup {k} |-> IF x = k THEN v ELSE f[x]]

(***************************************************************************)
(* PubSub (src/unnamed/part_002).  A router state is a record              *)
(* [global, k_src_cb, src_ks].                                             *)
(***************************************************************************)
PubSubType == [sub |-> "sub", pub |-> "pub", set |-> "set", del |-> "del"]

NewPubSub == [global |-> <<>>, k_src_cb |-> EmptyFcn, src_ks |-> EmptyFcn]

\* one invocation cb(k, v, t); grp and src name the registration it was made for
Invoke(grp, src, cb, k, v, t) ==
    [grp |-> grp, src |-> src, cb |-> cb, k |-> k, v |-> v, t |-> t]

PubSub_hasGlobal(ps, src) == MapHas(ps.global, src)

PubSub_subGlobal(ps, src, cb) == [ps EXCEPT !.global = MapSet(@, src, cb)]

PubSub_has(ps, src, k) ==
    /\ k \in DOMAIN ps.k_src_cb
    /\ src \in DOMAIN ps.src_ks
    /\ k \in ps.src_ks[src]

\* faulty variant: a new registration is stacked behind the source's old one
PubSub_subStacks(ps, src, k, cb) ==
    LET srcCb == IF k \in DOMAIN ps.k_src_cb THEN ps.k_src_cb[k] ELSE <<>>
        ks    == IF src \in DOMAIN ps.src_ks THEN ps.src_ks[src] ELSE {}
    IN  [ps EXCEPT !.k_src_cb = FcnSet(@, k, Append(srcCb, <<src, cb>>)),
                   !.src_ks   = FcnSet(@, src, ks \cup {k})]

PubSub_sub(ps, src, k, cb) ==
    LET srcCb == IF k \in DOMAIN ps.k_src_cb THEN ps.k_src_cb[k] ELSE <<>>
        ks    == IF src \in DOMAIN ps.src_ks THEN ps.src_ks[src] ELSE {}
    IN  [ps EXCEPT !.k_src_cb = FcnSet(@, k, MapSet(srcCb, src, cb)),
                   !.src_ks   = FcnSet(@, src, ks \cup {k})]

\* faulty variant: the whole global registry is cleared
PubSub_unsubGlobalClears(ps, src) == [ps EXCEPT !.global = <<>>]

PubSub_unsubGlobal(ps, src) == [ps EXCEPT !.global = MapDelete(@, src)]

\* faulty variant: only the source's key-set is updated
PubSub_unsubKeySetOnly(ps, src, k) ==
    IF src \in DOMAIN ps.src_ks
    THEN [ps EXCEPT !.src_ks[src] = @ \ {k}]
    ELSE ps

\* faulty variant: the whole registration map of the key is emptied
PubSub_unsubDropsKey(ps, src, k) ==
    LET p1 == IF k \in DOMAIN ps.k_src_cb
              THEN [ps EXCEPT !.k_src_cb[k] = <<>>]
              ELSE ps
    IN  IF src \in DOMAIN p1.src_ks
        THEN [p1 EXCEPT !.src_ks[src] = @ \ {k}]
        ELSE p1

PubSub_unsub(ps, src, k) ==
    LET p1 == IF k \in DOMAIN ps.k_src_cb
              THEN [ps EXCEPT !.k_src_cb[k] = MapDelete(@, src)]
              ELSE ps
    IN  IF src \in DOMAIN p1.src_ks
        THEN [p1 EXCEPT !.src_ks[src] = @ \ {k}]
        ELSE p1

RECURSIVE UnsubAll(_, _, _)
\* Promise.all(Array.from(ks).map(async k => this.unsub(src, k)))
UnsubAll(ps, src, ks) ==
    IF ks = {} THEN ps
    ELSE LET k == CHOOSE x \in ks : TRUE
         IN  UnsubAll(PubSub_unsub(ps, src, k), src, ks \ {k})

\* faulty variant: the scoped subscriptions of the source are kept
PubSub_unsubEveryWhereKeepsScoped(ps, src) == PubSub_unsubGlobal(ps, src)

\* faulty variant: the keys of the source lose every subscriber
PubSub_unsubEveryWhereDropsKeys(ps, src) ==
    LET p1 == PubSub_unsubGlobal(ps, src)
    IN  IF src \in DOMAIN p1.src_ks
        THEN [p1 EXCEPT !.k_src_cb = [k \in DOMAIN @ |->
                                         IF k \in p1.src_ks[src] THEN <<>> ELSE @[k]],
                        !.src_ks[src] = {}]
        ELSE p1

PubSub_unsubEveryWhere(ps, src) ==
    LET p1 == PubSub_unsubGlobal(ps, src)
    IN  IF src \in DOMAIN p1.src_ks
        THEN UnsubAll(p1, src, p1.src_ks[src])
        ELSE p1

\* Array.from(m).map(async ([, cb]) => await cb(k, v, t)): one call per entry, in order
FanOut(grp, m, k, v, t) ==
    [i \in 1..Len(m) |-> Invoke(grp, m[i][1], m[i][2], k, v, t)]

\* faulty variant: the scoped subscribers of every key are notified
PubSub_pubAllKeys(ps, k, v, t) ==
    FanOut("global", ps.global, k, v, t)
    \o (IF "a" \in DOMAIN ps.k_src_cb
        THEN FanOut("scoped", ps.k_src_cb["a"], k, v, t)
        ELSE <<>>)
    \o (IF "b" \in DOMAIN ps.k_src_cb
        THEN FanOut("scoped", ps.k_src_cb["b"], k, v, t)
        ELSE <<>>)

PubSub_pub(ps, k, v, t) ==
    FanOut("global", ps.global, k, v, t)
    \o (IF k \in DOMAIN ps.k_src_cb
        THEN FanOut("scoped", ps.k_src_cb[k], k, v, t)
        ELSE <<>>)

PubSub_pubTo(ps, src, k, v, t) ==
    <<Invoke("scoped", src, MapGet(ps.k_src_cb[k], src), k, v, t)>>

(***************************************************************************)
(* Store (src/src/store.js): the queries.                                  *)
(***************************************************************************)
Store_has(k) == MapHas(db, k)

Store_get(k) == MapGet(db, k)

Store_hasSub(src, k) == PubSub_has(pubsub, src, k)

Store_hasSubGlobal(src) == PubSub_hasGlobal(pubsub, src)

ErrDel == "store.error.delete.key.not.exists"

ErrSub == "store.error.sub.key.not.exists(k)"

ErrUnsub == "store.error.unsub.key.not.exists(k)"

NoError == ""

\* a returned boolean, as recorded in last.ret
Bool(b) == IF b THEN "true" ELSE "false"

Call(op, src, k, v, cb, now, err, ret, log) ==
    [op |-> op, src |-> src, k |-> k, v |-> v, cb |-> cb, now |-> now,
     err |-> err, ret |-> ret, log |-> log]

\* no set, del or pub is in flight
FanIdle ==
    [phase |-> "idle", t |-> None, k |-> None, v |-> None, trace |-> <<>>,
     result |-> "pending", err |-> NoError]

\* the calls of SpecCon
CallIds == {"c1", "c2"}

\* a call that was not invoked yet
IdleCall ==
    [op |-> None, src |-> None, k |-> None, v |-> None, cb |-> None,
     pc |-> "idle", inv |-> None, present |-> FALSE, val |-> None,
     removed |-> None,
     rk |-> None, ref |-> "undef", orph |-> <<>>,
     ksrc |-> None, ksref |-> "undef", korph |-> {},
     grp |-> None, open |-> {}, run |-> {},
     result |-> "pending", err |-> NoError]

NoCalls == [c \in CallIds |-> IdleCall]

Init ==
    /\ db = <<>>
    /\ pubsub = NewPubSub
    /\ nops = 0
    /\ fan = FanIdle
    /\ calls = NoCalls
    /\ jobs = <<>>
    /\ events = <<>>
    /\ iters = <<>>
    /\ last = Call("build", None, None, None, None, FALSE, NoError, None, <<>>)

(***************************************************************************)
(* Store: one action per method.  Tick counts the call.                    *)
(***************************************************************************)
Tick == nops < MaxOps /\ nops' = nops + 1 /\ UNCHANGED <<fan, conVars, iters>>

Has(k) ==
    /\ Tick
    /\ last' = Call("has", None, k, None, None, FALSE, NoError, Bool(Store_has(k)), <<>>)
    /\ UNCHANGED <<db, pubsub>>

Get(k) ==
    /\ Tick
    /\ last' = Call("get", None, k, None, None, FALSE, NoError, Store_get(k), <<>>)
    /\ UNCHANGED <<db, pubsub>>

Set(k, v) ==
    /\ Tick
    /\ db' = MapSet(db, k, v)
    /\ last' = Call("set", None, k, v, None, FALSE, NoError, None,
                    PubSub_pub(pubsub, k, v, PubSubType.set))
    /\ UNCHANGED pubsub

\* faulty variant: no check of the key's presence
DelUnchecked(k) ==
    /\ Tick
    /\ LET v == Store_get(k)
       IN  /\ db' = MapDelete(db, k)
           /\ last' = Call("del", None, k, None, None, FALSE, NoError, None,
                           PubSub_pub(pubsub, k, v, PubSubType.del))
           /\ pubsub' = PubSub_unsub(pubsub, k, v)

\* faulty variant: the entry is not removed
DelKeepsEntry(k) ==
    /\ Tick
    /\ IF ~Store_has(k)
       THEN /\ last' = Call("del", None, k, None, None, FALSE, ErrDel, None, <<>>)
            /\ UNCHANGED <<db, pubsub>>
       ELSE LET v == Store_get(k)
            IN  /\ db' = db
                /\ last' = Call("del", None, k, None, None, FALSE, NoError, None,
                                PubSub_pub(pubsub, k, v, PubSubType.del))
                /\ pubsub' = PubSub_unsub(pubsub, k, v)

\* faulty variant: the value is read after the entry is removed
DelReadsAfterDelete(k) ==
    /\ Tick
    /\ IF ~Store_has(k)
       THEN /\ last' = Call("del", None, k, None, None, FALSE, ErrDel, None, <<>>)
            /\ UNCHANGED <<db, pubsub>>
       ELSE LET v == MapGet(MapDelete(db, k), k)
            IN  /\ db' = MapDelete(db, k)
                /\ last' = Call("del", None, k, None, None, FALSE, NoError, None,
                                PubSub_pub(pubsub, k, v, PubSubType.del))
                /\ pubsub' = PubSub_unsub(pubsub, k, v)

\* the last call of del is this.pubsub.unsub(k, v): PubSub.unsub(src, k) is
\* given the key as its source and the value as its key
Del(k) ==
    /\ Tick
    /\ IF ~Store_has(k)
       THEN /\ last' = Call("del", None, k, None, None, FALSE, ErrDel, None, <<>>)
            /\ UNCHANGED <<db, pubsub>>
       ELSE LET v == Store_get(k)
            IN  /\ db' = MapDelete(db, k)
                /\ last' = Call("del", None, k, None, None, FALSE, NoError, None,
                                PubSub_pub(pubsub, k, v, PubSubType.del))
                /\ pubsub' = PubSub_unsub(pubsub, k, v)

\* faulty variant: the event is published as a 'set'
PubAsSet(k) ==
    /\ Tick
    /\ LET v == Store_get(k)
       IN  /\ last' = Call("pub", None, k, None, None, FALSE, NoError, None,
                           PubSub_pub(pubsub, k, v, PubSubType.set))
           /\ UNCHANGED <<db, pubsub>>

Pub(k) ==
    /\ Tick
    /\ LET v == Store_get(k)
       IN  /\ last' = Call("pub", None, k, None, None, FALSE, NoError, None,
                           PubSub_pub(pubsub, k, v, PubSubType.pub))
           /\ UNCHANGED <<db, pubsub>>

HasSub(src, k) ==
    /\ Tick
    /\ last' = Call("hasSub", src, k, None, None, FALSE, NoError,
                    Bool(Store_hasSub(src, k)), <<>>)
    /\ UNCHANGED <<db, pubsub>>

\* faulty variant: the 'sub' event is delivered whatever `now' is
SubIgnoresNow(src, k, cb, now) ==
    /\ Tick
    /\ IF ~Store_has(k)
       THEN /\ last' = Call("sub", src, k, None, cb, now, ErrSub, None, <<>>)
            /\ UNCHANGED <<db, pubsub>>
       ELSE LET ps == PubSub_sub(pubsub, src, k, cb)
                v  == Store_get(k)
            IN  /\ pubsub' = ps
                /\ last' = Call("sub", src, k, None, cb, now, NoError, None,
                                PubSub_pubTo(ps, src, k, v, PubSubType.sub))
                /\ UNCHANGED db

\* faulty variant: the 'sub' event is published to every subscriber (pub, not pubTo)
SubPublishesToAll(src, k, cb, now) ==
    /\ Tick
    /\ IF ~Store_has(k)
       THEN /\ last' = Call("sub", src, k, None, cb, now, ErrSub, None, <<>>)
            /\ UNCHANGED <<db, pubsub>>
       ELSE LET ps == PubSub_sub(pubsub, src, k, cb)
                v  == Store_get(k)
            IN  /\ pubsub' = ps
                /\ last' = Call("sub", src, k, None, cb, now, NoError, None,
                                IF now
                                THEN PubSub_pub(ps, k, v, PubSubType.sub)
                                ELSE <<>>)
                /\ UNCHANGED db

Sub(src, k, cb, now) ==
    /\ Tick
    /\ IF ~Store_has(k)
       THEN /\ last' = Call("sub", src, k, None, cb, now, ErrSub, None, <<>>)
            /\ UNCHANGED <<db, pubsub>>
       ELSE LET ps == PubSub_sub(pubsub, src, k, cb)
                v  == Store_get(k)
            IN  /\ pubsub' = ps
                /\ last' = Call("sub", src, k, None, cb, now, NoError, None,
                                IF now
                                THEN PubSub_pubTo(ps, src, k, v, PubSubType.sub)
                                ELSE <<>>)
                /\ UNCHANGED db

\* faulty variant: no check of the key's presence
UnsubUnchecked(src, k) ==
    /\ Tick
    /\ pubsub' = PubSub_unsub(pubsub, src, k)
    /\ last' = Call("unsub", src, k, None, None, FALSE, NoError, None, <<>>)
    /\ UNCHANGED db

Unsub(src, k) ==
    /\ Tick
    /\ IF ~Store_has(k)
       THEN /\ last' = Call("unsub", src, k, None, None, FALSE, ErrUnsub, None, <<>>)
            /\ UNCHANGED <<db, pubsub>>
       ELSE /\ pubsub' = PubSub_unsub(pubsub, src, k)
            /\ last' = Call("unsub", src, k, None, None, FALSE, NoError, None, <<>>)
            /\ UNCHANGED db

HasSubGlobal(src) ==
    /\ Tick
    /\ last' = Call("hasSubGlobal", src, None, None, None, FALSE, NoError,
                    Bool(Store_hasSubGlobal(src)), <<>>)
    /\ UNCHANGED <<db, pubsub>>

SubGlobal(src, cb) ==
    /\ Tick
    /\ pubsub' = PubSub_subGlobal(pubsub, src, cb)
    /\ last' = Call("subGlobal", src, None, None, cb, FALSE, NoError, None, <<>>)
    /\ UNCHANGED db

UnsubGlobal(src) ==
    /\ Tick
    /\ pubsub' = PubSub_unsubGlobal(pubsub, src)
    /\ last' = Call("unsubGlobal", src, None, None, None, FALSE, NoError, None, <<>>)
    /\ UNCHANGED db

UnsubEveryWhere(src) ==
    /\ Tick
    /\ pubsub' = PubSub_unsubEveryWhere(pubsub, src)
    /\ last' = Call("unsubEveryWhere", src, None, None, None, FALSE, NoError, None, <<>>)
    /\ UNCHANGED db

Next ==
    \/ \E k \in Keys : Has(k)
    \/ \E k \in Keys : Get(k)
    \/ \E k \in Keys, v \in Values : Set(k, v)
    \/ \E k \in Keys : Del(k)
    \/ \E k \in Keys : Pub(k)
    \/ \E src \in Sources, k \in Keys : HasSub(src, k)
    \/ \E src \in Sources, k \in Keys, cb \in Callbacks, now \in BOOLEAN :
          Sub(src, k, cb, now)
    \/ \E src \in Sources, k \in Keys : Unsub(src, k)
    \/ \E src \in Sources : HasSubGlobal(src)
    \/ \E src \in Sources, cb \in Callbacks : SubGlobal(src, cb)
    \/ \E src \in Sources : UnsubGlobal(src)
    \/ \E src \in Sources : UnsubEveryWhere(src)

Spec == Init /\ [][Next]_vars

(***************************************************************************)
(* A call in flight through PubSub.pub.  A callback is named after what it *)
(* does when invoked: "sync" returns at once, "async" returns a promise    *)
(* that is fulfilled later, "throws" throws at once, "rejects" returns a   *)
(* promise that is rejected later.                                         *)
(***************************************************************************)
FanCallbacks == {"sync", "async", "throws", "rejects"}

\* a step of a callback: its invocation, its completion or its failure
Ev(ev, grp, src, cb) == [ev |-> ev, grp |-> grp, src |-> src, cb |-> cb]

RECURSIVE InvokeAll(_, _, _)
\* Array.from(m).map(async ([, cb]) => await cb(k, v, t)), from entry i on: the
\* arrows are called one after the other, each calls its callback at once; a
\* callback that throws rejects the promise of its own arrow only
InvokeAll(grp, m, i) ==
    IF i > Len(m) THEN <<>>
    ELSE LET src == m[i][1]
             cb  == m[i][2]
         IN  <<Ev("invoke", grp, src, cb)>>
             \o (IF cb = "sync" THEN <<Ev("complete", grp, src, cb)>>
                 ELSE IF cb = "throws" THEN <<Ev("fail", grp, src, cb)>>
                 ELSE <<>>)
             \o InvokeAll(grp, m, i + 1)

\* the callback of (grp, src) was invoked and has neither completed nor failed
Pending(trace, grp, src) ==
    /\ \E i \in 1..Len(trace) :
          trace[i].ev = "invoke" /\ trace[i].grp = grp /\ trace[i].src = src
    /\ ~\E i \in 1..Len(trace) :
          trace[i].ev \in {"complete", "fail"}
             /\ trace[i].grp = grp /\ trace[i].src = src

\* Promise.all is rejected as soon as one of its promises is
GroupFailed(trace, grp) ==
    \E i \in 1..Len(trace) : trace[i].ev = "fail" /\ trace[i].grp = grp

\* faulty variant: the group is not awaited
GroupResolvedNoWait(trace, grp) == ~GroupFailed(trace, grp)

\* Promise.all is fulfilled once every one of its promises is
GroupResolved(trace, grp) ==
    /\ ~GroupFailed(trace, grp)
    /\ \A src \in Sources : ~Pending(trace, grp, src)

\* Store.set / del / pub reach this.pubsub.pub(k, v, t): the global group is invoked
FanBegin(t, k, v) ==
    [phase |-> "global", t |-> t, k |-> k, v |-> v,
     trace |-> InvokeAll("global", pubsub.global, 1),
     result |-> "pending", err |-> NoError]

FanSet(k, v) ==
    /\ fan.phase = "idle"
    /\ db' = MapSet(db, k, v)
    /\ fan' = FanBegin(PubSubType.set, k, v)
    /\ UNCHANGED <<pubsub, last, nops, conVars, iters>>

FanDel(k) ==
    /\ fan.phase = "idle"
    /\ IF ~Store_has(k)
       THEN /\ fan' = [FanIdle EXCEPT !.phase = "done", !.t = PubSubType.del,
                                      !.k = k, !.result = "rejected",
                                      !.err = ErrDel]
            /\ UNCHANGED db
       ELSE /\ db' = MapDelete(db, k)
            /\ fan' = FanBegin(PubSubType.del, k, Store_get(k))
    /\ UNCHANGED <<pubsub, last, nops, conVars, iters>>

FanPub(k) ==
    /\ fan.phase = "idle"
    /\ fan' = FanBegin(PubSubType.pub, k, Store_get(k))
    /\ UNCHANGED <<db, pubsub, last, nops, conVars, iters>>

\* the promise of an asynchronous callback settles
FanSettle(grp, src) ==
    /\ fan.phase # "idle"
    /\ Pending(fan.trace, grp, src)
    /\ LET cb == (CHOOSE e \in {fan.trace[i] : i \in 1..Len(fan.trace)} :
                     e.ev = "invoke" /\ e.grp = grp /\ e.src = src).cb
       IN  fan' = [fan EXCEPT !.trace =
                      Append(@, Ev(IF cb = "rejects" THEN "fail" ELSE "complete",
                                   grp, src, cb))]
    /\ UNCHANGED <<db, pubsub, last, nops, conVars, iters>>

\* PubSub.pub, after the global group: the scoped group of k is invoked
FanScoped ==
    /\ fan.phase = "global"
    /\ GroupResolved(fan.trace, "global")
    /\ fan' = [fan EXCEPT !.phase = "scoped",
                          !.trace = @ \o (IF fan.k \in DOMAIN pubsub.k_src_cb
                                          THEN InvokeAll("scoped",
                                                         pubsub.k_src_cb[fan.k], 1)
                                          ELSE <<>>)]
    /\ UNCHANGED <<db, pubsub, last, nops, conVars, iters>>

\* PubSub.pub returns; del goes on to this.pubsub.unsub(k, v); the call is fulfilled
FanReturn ==
    /\ fan.phase = "scoped"
    /\ GroupResolved(fan.trace, "scoped")
    /\ fan' = [fan EXCEPT !.phase = "done", !.result = "fulfilled"]
    /\ pubsub' = IF fan.t = PubSubType.del
                 THEN PubSub_unsub(pubsub, fan.k, fan.v)
                 ELSE pubsub
    /\ UNCHANGED <<db, last, nops, conVars, iters>>

\* await Promise.all(...) throws: PubSub.pub and the Store's call are rejected
FanThrow ==
    /\ fan.phase \in {"global", "scoped"}
    /\ GroupFailed(fan.trace, fan.phase)
    /\ fan' = [fan EXCEPT !.phase = "done", !.result = "rejected"]
    /\ UNCHANGED <<db, pubsub, last, nops, conVars, iters>>

\* the ordered Maps over Sources with callbacks of FanCallbacks
Registries ==
    {<<>>}
    \cup {<<<<s, c>>>> : s \in Sources, c \in FanCallbacks}
    \cup {m \in {<<<<s1, c1>>, <<s2, c2>>>> :
                      s1 \in Sources, s2 \in Sources,
                      c1 \in FanCallbacks, c2 \in FanCallbacks} :
             m[1][1] # m[2][1]}

RECURSIVE SubGlobalEach(_, _, _)
\* the router after subGlobal(src, cb) for each entry of reg, in order
SubGlobalEach(ps, reg, i) ==
    IF i > Len(reg) THEN ps
    ELSE SubGlobalEach(PubSub_subGlobal(ps, reg[i][1], reg[i][2]), reg, i + 1)

RECURSIVE SubEach(_, _, _, _)
\* the router after sub(src, k, cb) for each entry of reg, in order
SubEach(ps, k, reg, i) ==
    IF i > Len(reg) THEN ps
    ELSE SubEach(PubSub_sub(ps, reg[i][1], k, reg[i][2]), k, reg, i + 1)

\* a store that holds key "a", after the subscriptions of g and of sc on "a"
FanInit ==
    /\ db \in {<<<<"a", v>>>> : v \in Values}
    /\ pubsub \in {SubEach(SubGlobalEach(NewPubSub, g, 1), "a", sc, 1) :
                      g \in Registries, sc \in Registries}
    /\ nops = 0
    /\ last = Call("build", None, None, None, None, FALSE, NoError, None, <<>>)
    /\ fan = FanIdle
    /\ calls = NoCalls
    /\ jobs = <<>>
    /\ events = <<>>
    /\ iters = <<>>

FanNext ==
    \/ \E k \in Keys, v \in Values : FanSet(k, v)
    \/ \E k \in Keys : FanDel(k)
    \/ \E k \in Keys : FanPub(k)
    \/ \E grp \in {"global", "scoped"}, src \in Sources : FanSettle(grp, src)
    \/ FanScoped
    \/ FanReturn
    \/ FanThrow

SpecFan == FanInit /\ [][FanNext]_vars

(***************************************************************************)
(* Concurrent calls.  A call is an async function: it runs until its next  *)
(* await, whose continuation is put at the end of the microtask queue      *)
(* (`jobs') when the awaited value is settled.  A call that awaits another *)
(* async function of the Store or the router goes through the awaits of    *)
(* both.  A registered callback is "sync" (returns at once) or "async"     *)
(* (returns a promise that the application fulfils at a time of its own).  *)
(***************************************************************************)
ConCallbacks == {"sync", "async"}

Job(c, kind, src) == [c |-> c, kind |-> kind, src |-> src]

\* the continuation of the await call c stands at
ContJob(c) == Job(c, "cont", None)

\* the microtask queue runs the continuation of call c, which stands at pc
AtCont(c, pc) == jobs # <<>> /\ Head(jobs) = ContJob(c) /\ calls[c].pc = pc

\* the running continuation reaches an await of a settled value
Requeue(c) == Append(Tail(jobs), ContJob(c))

ConFrame == UNCHANGED <<last, nops, fan, iters>>

OtherCall(c) == CHOOSE d \in CallIds : d # c

\* "c2" is invoked after "c1"
InvOrder(c) == c = "c2" => calls["c1"].pc # "idle"

\* when call c is invoked: "first", "after" the other call settled, "b2b" (back
\* to back: no continuation of the other call has run yet) or "overlap"
InvKind(c) ==
    LET o == calls[OtherCall(c)]
    IN  IF o.pc = "idle" THEN "first"
        ELSE IF o.pc = "done" THEN "after"
        ELSE IF o.pc = (IF o.op = "set" THEN "pub" ELSE "has_ret") THEN "b2b"
        ELSE "overlap"

\* this.k_src_cb.get(k), this.src_ks.get(src): a reference to the inner Map or
\* Set, or undefined
Capture(k) == IF k \in DOMAIN pubsub.k_src_cb THEN "live" ELSE "undef"

CaptureKs(src) == IF src \in DOMAIN pubsub.src_ks THEN "live" ELSE "undef"

\* the entries of the Map call c holds a reference to: the one the router
\* holds for the key, or one that was replaced in the meantime
RefEntries(c) ==
    IF calls[c].ref = "live" THEN pubsub.k_src_cb[calls[c].rk] ELSE calls[c].orph

\* the continuations of the arrows whose callback returned at once, in order
ArrowJobs(c, m) ==
    LET syn == SelectSeq(m, LAMBDA e : e[2] = "sync")
    IN  [i \in 1..Len(syn) |-> Job(c, "arrow", syn[i][1])]

\* await Promise.all(Array.from(m).map(async ([, cb]) => await cb(k, v, t)))
InvokeGroup(c, grp, m, pc) ==
    /\ events' = events \o FanOut(grp, m, calls[c].k, calls[c].val,
                                  PubSubType[calls[c].op])
    /\ calls' = [calls EXCEPT ![c].grp = grp, ![c].pc = pc,
                              ![c].open = {m[i][1] : i \in 1..Len(m)},
                              ![c].run = {m[i][1] : i \in {j \in 1..Len(m) :
                                                             m[j][2] = "async"}}]
    /\ jobs' = Tail(jobs) \o (IF m = <<>> THEN <<ContJob(c)>> ELSE ArrowJobs(c, m))

\* the call is settled
Settled(c, result, err) ==
    /\ calls' = [calls EXCEPT ![c].pc = "done", ![c].result = result, ![c].err = err]
    /\ jobs' = Tail(jobs)

ConSet(c, k, v) ==
    /\ calls[c].pc = "idle" /\ InvOrder(c)
    /\ db' = MapSet(db, k, v)
    /\ calls' = [calls EXCEPT ![c] = [IdleCall EXCEPT !.op = "set", !.k = k,
                                         !.v = v, !.val = v, !.pc = "pub",
                                         !.present = Store_has(k),
                                         !.inv = InvKind(c)]]
    /\ jobs' = Append(jobs, ContJob(c))
    /\ UNCHANGED <<pubsub, events>> /\ ConFrame

\* del, sub and unsub begin with this.has(k), which reads the db and awaits
ConHas(c, op, src, k, cb) ==
    /\ calls' = [calls EXCEPT ![c] = [IdleCall EXCEPT !.op = op, !.src = src,
                                         !.k = k, !.cb = cb, !.pc = "has_ret",
                                         !.present = Store_has(k),
                                         !.inv = InvKind(c)]]
    /\ jobs' = Append(jobs, ContJob(c))
    /\ UNCHANGED <<db, pubsub, events>> /\ ConFrame

ConDel(c, k) ==
    /\ calls[c].pc = "idle" /\ InvOrder(c)
    /\ ConHas(c, "del", None, k, None)

ConSub(c, src, k, cb) ==
    /\ calls[c].pc = "idle" /\ InvOrder(c)
    /\ ConHas(c, "sub", src, k, cb)

ConUnsub(c, src, k) ==
    /\ calls[c].pc = "idle" /\ InvOrder(c)
    /\ ConHas(c, "unsub", src, k, None)

\* has returns; the caller awaits its promise
ConHasReturns(c) ==
    /\ AtCont(c, "has_ret")
    /\ calls' = [calls EXCEPT ![c].pc = "checked"]
    /\ jobs' = Requeue(c)
    /\ UNCHANGED <<db, pubsub, events>> /\ ConFrame

\* del: the check, then const v = await this.get(k)
ConDelChecked(c) ==
    /\ AtCont(c, "checked") /\ calls[c].op = "del"
    /\ IF ~calls[c].present
       THEN Settled(c, "rejected", ErrDel)
       ELSE /\ calls' = [calls EXCEPT ![c].val = Store_get(calls[c].k),
                                      ![c].pc = "get_ret"]
            /\ jobs' = Requeue(c)
    /\ UNCHANGED <<db, pubsub, events>> /\ ConFrame

\* get returns; del awaits its promise
ConGetReturns(c) ==
    /\ AtCont(c, "get_ret")
    /\ calls' = [calls EXCEPT ![c].pc = "del_delete"]
    /\ jobs' = Requeue(c)
    /\ UNCHANGED <<db, pubsub, events>> /\ ConFrame

\* await this.db.delete(k); `removed' notes the value the entry held
ConDelDelete(c) ==
    /\ AtCont(c, "del_delete")
    /\ db' = MapDelete(db, calls[c].k)
    /\ calls' = [calls EXCEPT ![c].removed = Store_get(calls[c].k), ![c].pc = "pub"]
    /\ jobs' = Requeue(c)
    /\ UNCHANGED <<pubsub, events>> /\ ConFrame

\* this.pubsub.pub(k, v, t): the global group
ConPub(c) ==
    /\ AtCont(c, "pub")
    /\ InvokeGroup(c, "global", pubsub.global, "pub_g")
    /\ UNCHANGED <<db, pubsub>> /\ ConFrame

\* the callback's promise is fulfilled: its arrow goes on
ConSettle(c, src) ==
    /\ src \in calls[c].run
    /\ calls' = [calls EXCEPT ![c].run = @ \ {src}]
    /\ jobs' = Append(jobs, Job(c, "arrow", src))
    /\ UNCHANGED <<db, pubsub, events>> /\ ConFrame

\* the arrow returns: its promise is fulfilled
ConArrowReturns(c, src) ==
    /\ jobs # <<>> /\ Head(jobs) = Job(c, "arrow", src)
    /\ jobs' = Append(Tail(jobs), Job(c, "all", src))
    /\ UNCHANGED <<db, pubsub, calls, events>> /\ ConFrame

\* Promise.all takes note of one fulfilled promise; after the last one its
\* own promise is fulfilled
ConAllElement(c, src) ==
    /\ jobs # <<>> /\ Head(jobs) = Job(c, "all", src)
    /\ calls' = [calls EXCEPT ![c].open = @ \ {src}]
    /\ jobs' = IF calls[c].open = {src} THEN Requeue(c) ELSE Tail(jobs)
    /\ UNCHANGED <<db, pubsub, events>> /\ ConFrame

\* const srcCb = await this.k_src_cb.get(k)
ConPubGet(c) ==
    /\ AtCont(c, "pub_g")
    /\ calls' = [calls EXCEPT ![c].rk = calls[c].k, ![c].ref = Capture(calls[c].k),
                              ![c].pc = "pub_get"]
    /\ jobs' = Requeue(c)
    /\ UNCHANGED <<db, pubsub, events>> /\ ConFrame

\* if (srcCb) await Promise.all(...): the scoped group; else pub returns
ConPubScoped(c) ==
    /\ AtCont(c, "pub_get")
    /\ IF calls[c].ref = "undef"
       THEN /\ calls' = [calls EXCEPT ![c].pc = "pub_ret"]
            /\ jobs' = Requeue(c)
            /\ UNCHANGED events
       ELSE InvokeGroup(c, "scoped", RefEntries(c), "pub_s")
    /\ UNCHANGED <<db, pubsub>> /\ ConFrame

\* pub returns; the caller awaits its promise
ConPubReturns(c) ==
    /\ AtCont(c, "pub_s")
    /\ calls' = [calls EXCEPT ![c].pc = "pub_ret"]
    /\ jobs' = Requeue(c)
    /\ UNCHANGED <<db, pubsub, events>> /\ ConFrame

ConSetReturns(c) ==
    /\ AtCont(c, "pub_ret") /\ calls[c].op = "set"
    /\ Settled(c, "fulfilled", NoError)
    /\ UNCHANGED <<db, pubsub, events>> /\ ConFrame

\* del: await this.pubsub.unsub(k, v), which begins with this.k_src_cb.get(v)
ConDelUnsub(c) ==
    /\ AtCont(c, "pub_ret") /\ calls[c].op = "del"
    /\ calls' = [calls EXCEPT ![c].rk = calls[c].val, ![c].ksrc = calls[c].k,
                              ![c].ref = Capture(calls[c].val),
                              ![c].pc = "unsub_1"]
    /\ jobs' = Requeue(c)
    /\ UNCHANGED <<db, pubsub, events>> /\ ConFrame

\* unsub: the check, then this.pubsub.unsub(src, k), which begins with
\* this.k_src_cb.get(k)
ConUnsubChecked(c) ==
    /\ AtCont(c, "checked") /\ calls[c].op = "unsub"
    /\ IF ~calls[c].present
       THEN Settled(c, "rejected", ErrUnsub)
       ELSE /\ calls' = [calls EXCEPT ![c].rk = calls[c].k, ![c].ksrc = calls[c].src,
                                      ![c].ref = Capture(calls[c].k),
                                      ![c].pc = "unsub_1"]
            /\ jobs' = Requeue(c)
    /\ UNCHANGED <<db, pubsub, events>> /\ ConFrame

\* PubSub.unsub: if (srcCb) await srcCb.delete(src); else on to this.src_ks.get(src)
ConUnsubDelete(c) ==
    /\ AtCont(c, "unsub_1")
    /\ IF calls[c].ref = "undef"
       THEN /\ calls' = [calls EXCEPT ![c].ksref = CaptureKs(calls[c].ksrc),
                                      ![c].pc = "unsub_3"]
            /\ UNCHANGED pubsub
       ELSE IF calls[c].ref = "live"
       THEN /\ pubsub' = [pubsub EXCEPT !.k_src_cb[calls[c].rk] =
                                           MapDelete(@, calls[c].ksrc)]
            /\ calls' = [calls EXCEPT ![c].pc = "unsub_2"]
       ELSE /\ calls' = [calls EXCEPT ![c].orph = MapDelete(@, calls[c].ksrc),
                                      ![c].pc = "unsub_2"]
            /\ UNCHANGED pubsub
    /\ jobs' = Requeue(c)
    /\ UNCHANGED <<db, events>> /\ ConFrame

\* PubSub.unsub: const ks = await this.src_ks.get(src)
ConUnsubGetKs(c) ==
    /\ AtCont(c, "unsub_2")
    /\ calls' = [calls EXCEPT ![c].ksref = CaptureKs(calls[c].ksrc),
                              ![c].pc = "unsub_3"]
    /\ jobs' = Requeue(c)
    /\ UNCHANGED <<db, pubsub, events>> /\ ConFrame

\* PubSub.unsub: if (ks) await ks.delete(k); else unsub returns
ConUnsubDeleteKs(c) ==
    /\ AtCont(c, "unsub_3")
    /\ IF calls[c].ksref = "undef"
       THEN /\ calls' = [calls EXCEPT ![c].pc = "unsub_ret"]
            /\ UNCHANGED pubsub
       ELSE IF calls[c].ksref = "live"
       THEN /\ pubsub' = [pubsub EXCEPT !.src_ks[calls[c].ksrc] = @ \ {calls[c].rk}]
            /\ calls' = [calls EXCEPT ![c].pc = "unsub_4"]
       ELSE /\ calls' = [calls EXCEPT ![c].korph = @ \ {calls[c].rk},
                                      ![c].pc = "unsub_4"]
            /\ UNCHANGED pubsub
    /\ jobs' = Requeue(c)
    /\ UNCHANGED <<db, events>> /\ ConFrame

\* PubSub.unsub returns; the caller awaits its promise
ConUnsubReturns(c) ==
    /\ AtCont(c, "unsub_4")
    /\ calls' = [calls EXCEPT ![c].pc = "unsub_ret"]
    /\ jobs' = Requeue(c)
    /\ UNCHANGED <<db, pubsub, events>> /\ ConFrame

\* del or unsub returns
ConUnsubDone(c) ==
    /\ AtCont(c, "unsub_ret")
    /\ Settled(c, "fulfilled", NoError)
    /\ UNCHANGED <<db, pubsub, events>> /\ ConFrame

\* sub: the check, then this.pubsub.sub(src, k, cb), which begins with
\* this.k_src_cb.get(k)
ConSubChecked(c) ==
    /\ AtCont(c, "checked") /\ calls[c].op = "sub"
    /\ IF ~calls[c].present
       THEN Settled(c, "rejected", ErrSub)
       ELSE /\ calls' = [calls EXCEPT ![c].rk = calls[c].k, ![c].ksrc = calls[c].src,
                                      ![c].ref = Capture(calls[c].k),
                                      ![c].pc = "sub_1"]
            /\ jobs' = Requeue(c)
    /\ UNCHANGED <<db, pubsub, events>> /\ ConFrame

\* srcCb.set(src, cb) on the Map call c holds
ConWriteRef(c, pc) ==
    IF calls[c].ref = "live"
    THEN /\ pubsub' = [pubsub EXCEPT !.k_src_cb[calls[c].rk] =
                                        MapSet(@, calls[c].ksrc, calls[c].cb)]
         /\ calls' = [calls EXCEPT ![c].pc = pc]
    ELSE /\ calls' = [calls EXCEPT ![c].orph = MapSet(@, calls[c].ksrc, calls[c].cb),
                                   ![c].pc = pc]
         /\ UNCHANGED pubsub

\* PubSub.sub: if (!srcCb) await this.k_src_cb.set(k, srcCb = new Map()), which
\* replaces the Map another call may have put there; else await srcCb.set(src, cb)
ConSubNewMap(c) ==
    /\ AtCont(c, "sub_1")
    /\ IF calls[c].ref = "undef"
       THEN /\ pubsub' = [pubsub EXCEPT !.k_src_cb = FcnSet(@, calls[c].rk, <<>>)]
            /\ calls' = [d \in CallIds |->
                  IF d = c
                  THEN [calls[d] EXCEPT !.ref = "live", !.pc = "sub_2"]
                  ELSE IF calls[d].ref = "live" /\ calls[d].rk = calls[c].rk
                          /\ calls[d].pc \notin {"idle", "done"}
                  THEN [calls[d] EXCEPT !.ref = "orphan",
                                        !.orph = pubsub.k_src_cb[calls[c].rk]]
                  ELSE calls[d]]
       ELSE ConWriteRef(c, "sub_3")
    /\ jobs' = Requeue(c)
    /\ UNCHANGED <<db, events>> /\ ConFrame

\* PubSub.sub: await srcCb.set(src, cb), after the new Map
ConSubSet(c) ==
    /\ AtCont(c, "sub_2")
    /\ ConWriteRef(c, "sub_3")
    /\ jobs' = Requeue(c)
    /\ UNCHANGED <<db, events>> /\ ConFrame

\* PubSub.sub: let ks = await this.src_ks.get(src)
ConSubGetKs(c) ==
    /\ AtCont(c, "sub_3")
    /\ calls' = [calls EXCEPT ![c].ksref = CaptureKs(calls[c].ksrc),
                              ![c].pc = "sub_4"]
    /\ jobs' = Requeue(c)
    /\ UNCHANGED <<db, pubsub, events>> /\ ConFrame

\* ks.add(k) on the Set call c holds; PubSub.sub returns, the caller awaits it
ConAddKs(c) ==
    IF calls[c].ksref = "live"
    THEN /\ pubsub' = [pubsub EXCEPT !.src_ks[calls[c].ksrc] = @ \cup {calls[c].rk}]
         /\ calls' = [calls EXCEPT ![c].pc = "sub_ret"]
    ELSE /\ calls' = [calls EXCEPT ![c].korph = @ \cup {calls[c].rk},
                                   ![c].pc = "sub_ret"]
         /\ UNCHANGED pubsub

\* PubSub.sub: if (!ks) await this.src_ks.set(src, ks = new Set()), which
\* replaces the Set another call may have put there; else ks.add(k)
ConSubNewKs(c) ==
    /\ AtCont(c, "sub_4")
    /\ IF calls[c].ksref = "undef"
       THEN /\ pubsub' = [pubsub EXCEPT !.src_ks = FcnSet(@, calls[c].ksrc, {})]
            /\ calls' = [d \in CallIds |->
                  IF d = c
                  THEN [calls[d] EXCEPT !.ksref = "live", !.pc = "sub_5"]
                  ELSE IF calls[d].ksref = "live" /\ calls[d].ksrc = calls[c].ksrc
                          /\ calls[d].pc \notin {"idle", "done"}
                  THEN [calls[d] EXCEPT !.ksref = "orphan",
                                        !.korph = pubsub.src_ks[calls[c].ksrc]]
                  ELSE calls[d]]
       ELSE ConAddKs(c)
    /\ jobs' = Requeue(c)
    /\ UNCHANGED <<db, events>> /\ ConFrame

\* PubSub.sub: ks.add(k), after the new Set
ConSubAdd(c) ==
    /\ AtCont(c, "sub_5")
    /\ ConAddKs(c)
    /\ jobs' = Requeue(c)
    /\ UNCHANGED <<db, events>> /\ ConFrame

\* sub returns (`now' is omitted)
ConSubReturns(c) ==
    /\ AtCont(c, "sub_ret")
    /\ Settled(c, "fulfilled", NoError)
    /\ UNCHANGED <<db, pubsub, events>> /\ ConFrame

\* the registries of SpecCon: none or one subscriber
ConRegistries == {<<>>} \cup {<<<<"s", cb>>>> : cb \in ConCallbacks}

\* an empty store or one that holds "a"; a global subscriber or none; a
\* subscriber of "a" or none (del leaves the subscribers of a key in place)
ConInit ==
    /\ db \in {<<>>} \cup {<<<<"a", v>>>> : v \in Values}
    /\ pubsub \in {SubEach(SubGlobalEach(NewPubSub, g, 1), "a", sc, 1) :
                      g \in ConRegistries, sc \in ConRegistries}
    /\ nops = 0
    /\ last = Call("build", None, None, None, None, FALSE, NoError, None, <<>>)
    /\ fan = FanIdle
    /\ calls = NoCalls
    /\ jobs = <<>>
    /\ events = <<>>
    /\ iters = <<>>

ConNext ==
    \/ \E c \in CallIds, k \in Keys, v \in Values : ConSet(c, k, v)
    \/ \E c \in CallIds, k \in Keys : ConDel(c, k)
    \/ \E c \in CallIds, src \in Sources, k \in Keys, cb \in ConCallbacks :
          ConSub(c, src, k, cb)
    \/ \E c \in CallIds, src \in Sources, k \in Keys : ConUnsub(c, src, k)
    \/ \E c \in CallIds : ConHasReturns(c)
    \/ \E c \in CallIds : ConDelChecked(c)
    \/ \E c \in CallIds : ConGetReturns(c)
    \/ \E c \in CallIds : ConDelDelete(c)
    \/ \E c \in CallIds : ConPub(c)
    \/ \E c \in CallIds, src \in Sources : ConSettle(c, src)
    \/ \E c \in CallIds, src \in Sources : ConArrowReturns(c, src)
    \/ \E c \in CallIds, src \in Sources : ConAllElement(c, src)
    \/ \E c \in CallIds : ConPubGet(c)
    \/ \E c \in CallIds : ConPubScoped(c)
    \/ \E c \in CallIds : ConPubReturns(c)
    \/ \E c \in CallIds : ConSetReturns(c)
    \/ \E c \in CallIds : ConDelUnsub(c)
    \/ \E c \in CallIds : ConUnsubChecked(c)
    \/ \E c \in CallIds : ConUnsubDelete(c)
    \/ \E c \in CallIds : ConUnsubGetKs(c)
    \/ \E c \in CallIds : ConUnsubDeleteKs(c)
    \/ \E c \in CallIds : ConUnsubReturns(c)
    \/ \E c \in CallIds : ConUnsubDone(c)
    \/ \E c \in CallIds : ConSubChecked(c)
    \/ \E c \in CallIds : ConSubNewMap(c)
    \/ \E c \in CallIds : ConSubSet(c)
    \/ \E c \in CallIds : ConSubGetKs(c)
    \/ \E c \in CallIds : ConSubNewKs(c)
    \/ \E c \in CallIds : ConSubAdd(c)
    \/ \E c \in CallIds : ConSubReturns(c)

SpecCon == ConInit /\ [][ConNext]_vars

(***************************************************************************)
(* find and findOne.  A selector is undefined ("all"), a RegExp ("re") or  *)
(* a predicate ("fn").  The keys of the model are one character long, so a *)
(* RegExp is the set of characters it matches, with or without the g flag; *)
(* a predicate is the set of [key, mappedValue] pairs it accepts.  The     *)
(* enumerator of a find call is iters[i]: pos entries of db are behind the *)
(* Map iterator `entries', li is the lastIndex of the call's RegExp, out   *)
(* what next() yielded so far; dirty notes a set or del since the call,    *)
(* again a next() after the one that reported done.  findOne makes an      *)
(* enumerator of its own (one), calls its next() once and returns ret.     *)
(* lastIndex (li) belongs to the RegExp object the caller passed: when the *)
(* second call is given the object of the first (same), they share it.     *)
(***************************************************************************)
IterIds == {"i1", "i2"}

\* the number of set and del calls in a run of SpecFind
MaxMut == 2

Sel(kind, chars, g, acc) == [kind |-> kind, chars |-> chars, g |-> g, acc |-> acc]

\* q = undefined
SelAll == Sel("all", {}, FALSE, {})

Pattern(chars, g) == Sel("re", chars, g, {})

Predicate(acc) == Sel("fn", {}, FALSE, acc)

\* the mappers: the default x => x, and one that exchanges the two values
Mappers == {"id", "swap"}

Apply(f, v) == IF f = "swap" THEN (IF v = "x" THEN "b" ELSE "x") ELSE v

\* the selectors and mappers find is called with
FindArgs ==
    {<<SelAll, "id">>,
     <<Pattern({"b"}, FALSE), "id">>,
     <<Pattern({"a", "b"}, TRUE), "id">>,
     <<Predicate({<<k, "b">> : k \in Keys}), "id">>,
     <<Predicate({<<k, "b">> : k \in Keys}), "swap">>}

\* RegExp.prototype.test on a one-character key: with the g flag the match
\* starts at lastIndex, which a match moves behind the key and a failure resets
Test(q, li, k) ==
    IF q.g
    THEN IF li = 0 /\ k \in q.chars
         THEN [ok |-> TRUE, li |-> 1]
         ELSE [ok |-> FALSE, li |-> 0]
    ELSE [ok |-> k \in q.chars, li |-> li]

\* q(kv), with what it leaves in lastIndex
Query(q, li, kv) ==
    IF q.kind = "all" THEN [ok |-> TRUE, li |-> li]
    ELSE IF q.kind = "re" THEN Test(q, li, kv[1])
    ELSE [ok |-> kv \in q.acc, li |-> li]

RECURSIVE ScanRaw(_, _, _, _, _)
\* faulty variant: the predicate is given the raw value
ScanRaw(m, pos, li, q, f) ==
    IF pos >= Len(m)
    THEN [done |-> TRUE, pos |-> pos, li |-> li, kv |-> <<>>]
    ELSE LET e  == m[pos + 1]
             kv == <<e[1], Apply(f, e[2])>>
             r  == Query(q, li, e)
         IN  IF r.ok
             THEN [done |-> FALSE, pos |-> pos + 1, li |-> r.li, kv |-> kv]
             ELSE ScanRaw(m, pos + 1, r.li, q, f)

RECURSIVE ScanSkips(_, _, _, _, _)
\* faulty variant: the entry behind a yielded one is passed over
ScanSkips(m, pos, li, q, f) ==
    IF pos >= Len(m)
    THEN [done |-> TRUE, pos |-> pos, li |-> li, kv |-> <<>>]
    ELSE LET e  == m[pos + 1]
             kv == <<e[1], Apply(f, e[2])>>
             r  == Query(q, li, kv)
         IN  IF r.ok
             THEN [done |-> FALSE, pos |-> pos + 2, li |-> r.li, kv |-> kv]
             ELSE ScanSkips(m, pos + 1, r.li, q, f)

RECURSIVE Scan(_, _, _, _, _)
\* next(): the while loop over entries.next(), from the entry behind pos
Scan(m, pos, li, q, f) ==
    IF pos >= Len(m)
    THEN [done |-> TRUE, pos |-> pos, li |-> li, kv |-> <<>>]
    ELSE LET e  == m[pos + 1]
             kv == <<e[1], Apply(f, e[2])>>
             r  == Query(q, li, kv)
         IN  IF r.ok
             THEN [done |-> FALSE, pos |-> pos + 1, li |-> r.li, kv |-> kv]
             ELSE Scan(m, pos + 1, r.li, q, f)

\* no find call yet
NoIter ==
    [made |-> FALSE, q |-> SelAll, f |-> "id", same |-> FALSE, pos |-> 0, li |-> 0,
     done |-> FALSE, out |-> <<>>, dirty |-> FALSE, again |-> FALSE,
     one |-> FALSE, ret |-> None]

FindFrame == UNCHANGED <<pubsub, fan, conVars>>

\* same: the call is given the very RegExp object the first call was given
GivenSame(i, q, same) ==
    same => (i = "i2" /\ q.kind = "re" /\ iters["i1"].q = q)

\* lastIndex of the RegExp object at the call
LastIndex(same) == IF same THEN iters["i1"].li ELSE 0

\* the calls whose test is bound to the RegExp object of call i
SameObject(i) == {j \in IterIds : j = i \/ iters[i].same \/ iters[j].same}

\* find(q, f): const entries = this.db.entries(); nothing is read yet
Find(i, q, f, same) ==
    /\ ~iters[i].made
    /\ i = "i2" => iters["i1"].made
    /\ GivenSame(i, q, same)
    /\ iters' = [iters EXCEPT ![i] = [NoIter EXCEPT !.made = TRUE, !.q = q, !.f = f,
                                         !.same = same, !.li = LastIndex(same)]]
    /\ UNCHANGED <<db, last, nops>> /\ FindFrame

\* next() of the enumerator; a Map iterator that reported done stays done
IterNext(i) ==
    /\ iters[i].made /\ ~iters[i].one
    /\ IF iters[i].done
       THEN iters' = [iters EXCEPT ![i].again = TRUE]
       ELSE LET r == Scan(db, iters[i].pos, iters[i].li, iters[i].q, iters[i].f)
            IN  iters' = [j \in IterIds |->
                   IF j = i
                   THEN [iters[j] EXCEPT !.pos = r.pos, !.li = r.li, !.done = r.done,
                            !.out = IF r.done THEN @ ELSE Append(@, r.kv)]
                   ELSE IF j \in SameObject(i)
                   THEN [iters[j] EXCEPT !.li = r.li]
                   ELSE iters[j]]
    /\ UNCHANGED <<db, last, nops>> /\ FindFrame

\* faulty variant: the key of the first match is returned
FindOneKey(i, q, same) ==
    /\ ~iters[i].made
    /\ i = "i2" => iters["i1"].made
    /\ GivenSame(i, q, same)
    /\ LET r == Scan(db, 0, LastIndex(same), q, "id")
       IN  iters' = [j \in IterIds |->
              IF j = i
              THEN [NoIter EXCEPT !.made = TRUE, !.one = TRUE, !.q = q, !.same = same,
                       !.pos = r.pos, !.li = r.li, !.done = r.done,
                       !.out = IF r.done THEN <<>> ELSE <<r.kv>>,
                       !.ret = IF r.done THEN Undefined ELSE r.kv[1]]
              ELSE IF same
              THEN [iters[j] EXCEPT !.li = r.li]
              ELSE iters[j]]
    /\ UNCHANGED <<db, last, nops>> /\ FindFrame

\* findOne(q): the first next() of this.find(q), whose enumerator is dropped
FindOne(i, q, same) ==
    /\ ~iters[i].made
    /\ i = "i2" => iters["i1"].made
    /\ GivenSame(i, q, same)
    /\ LET r == Scan(db, 0, LastIndex(same), q, "id")
       IN  iters' = [j \in IterIds |->
              IF j = i
              THEN [NoIter EXCEPT !.made = TRUE, !.one = TRUE, !.q = q, !.same = same,
                       !.pos = r.pos, !.li = r.li, !.done = r.done,
                       !.out = IF r.done THEN <<>> ELSE <<r.kv>>,
                       !.ret = IF r.done THEN Undefined ELSE r.kv[2]]
              ELSE IF same
              THEN [iters[j] EXCEPT !.li = r.li]
              ELSE iters[j]]
    /\ UNCHANGED <<db, last, nops>> /\ FindFrame

\* set(k, v) on a store without subscribers
FindSet(k, v) ==
    /\ nops < MaxMut
    /\ nops' = nops + 1
    /\ db' = MapSet(db, k, v)
    /\ iters' = [i \in IterIds |-> [iters[i] EXCEPT !.dirty = iters[i].made]]
    /\ UNCHANGED last /\ FindFrame

\* del(k) of a present key on a store without subscribers; a Map iterator
\* that is behind the removed entry stays behind the same entries
FindDel(k) ==
    /\ nops < MaxMut
    /\ Store_has(k)
    /\ nops' = nops + 1
    /\ db' = MapDelete(db, k)
    /\ iters' = [i \in IterIds |->
                   [iters[i] EXCEPT !.dirty = iters[i].made,
                                    !.pos = IF MapIndex(db, k) <= @ THEN @ - 1 ELSE @]]
    /\ UNCHANGED last /\ FindFrame

\* the Maps over Keys and Values that set calls can build
AllMaps ==
    {<<>>}
    \cup {<<<<k, v>>>> : k \in Keys, v \in Values}
    \cup {m \in {<<<<k1, v1>>, <<k2, v2>>>> :
                    k1 \in Keys, k2 \in Keys, v1 \in Values, v2 \in Values} :
             m[1][1] # m[2][1]}

FindInit ==
    /\ db \in AllMaps
    /\ pubsub = NewPubSub
    /\ nops = 0
    /\ last = Call("build", None, None, None, None, FALSE, NoError, None, <<>>)
    /\ fan = FanIdle
    /\ calls = NoCalls
    /\ jobs = <<>>
    /\ events = <<>>
    /\ iters = [i \in IterIds |-> NoIter]

FindNext ==
    \/ \E i \in IterIds, a \in FindArgs, same \in BOOLEAN : Find(i, a[1], a[2], same)
    \/ \E i \in IterIds : IterNext(i)
    \/ \E i \in IterIds, a \in FindArgs, same \in BOOLEAN : FindOne(i, a[1], same)
    \/ \E k \in Keys, v \in Values : FindSet(k, v)
    \/ \E k \in Keys : FindDel(k)

SpecFind == FindInit /\ [][FindNext]_vars





(***************************************************************************)
(* What a fan-out delivers, for the properties below.                      *)
(***************************************************************************)
\* the invocations of log made for the registration (grp, src)
Delivered(log, grp, src) ==
    {i \in 1..Len(log) : log[i].grp = grp /\ log[i].src = src}

ExactlyOnce(log, grp, src, cb) ==
    \E i \in 1..Len(log) : Delivered(log, grp, src) = {i} /\ log[i].cb = cb

\* log is one event (k, v, t) to each global subscriber of ps and to each
\* scoped subscriber of k in ps, and nothing else
OneEventEach(log, ps, k, v, t) ==
    /\ \A i \in 1..Len(log) :
          /\ log[i].k = k /\ log[i].v = v /\ log[i].t = t
          /\ log[i].grp \in {"global", "scoped"} /\ log[i].src \in Sources
    /\ \A src \in Sources :
          /\ IF PubSub_hasGlobal(ps, src)
             THEN ExactlyOnce(log, "global", src, MapGet(ps.global, src))
             ELSE Delivered(log, "global", src) = {}
          /\ IF PubSub_has(ps, src, k)
             THEN ExactlyOnce(log, "scoped", src, MapGet(ps.k_src_cb[k], src))
             ELSE Delivered(log, "scoped", src) = {}

\* C1: once set(k, v) has completed, has(k) is true and get(k) is v, whether
\* or not k existed before, and a key that is present keeps its value through
\* every call other than a set or a del of that key.
C1_SetThenGet ==
    [][\A k \in Keys :
          /\ \A v \in Values :
                (last'.op = "set" /\ last'.k = k /\ last'.v = v)
                   => (Store_has(k)' /\ Store_get(k)' = v)
          /\ (Store_has(k) /\ ~(last'.op \in {"set", "del"} /\ last'.k = k))
                => (Store_has(k)' /\ Store_get(k)' = Store_get(k))]_vars

\* a third call that is a set overwriting "a" with "b", "b" being present too
C1_Witness ==
    /\ nops = 3 /\ last.op = "set" /\ last.k = "a" /\ last.v = "b"
    /\ db = <<<<"a", "b">>, <<"b", "x">>>>

\* C2: every set(k, v) delivers exactly one event (k, v, 'set') to each global
\* subscriber and to each source scoped-subscribed to k, through the callback
\* it registered, and nothing to anyone else.
C2_SetNotifiesEach ==
    last.op = "set" => OneEventEach(last.log, pubsub, last.k, last.v, PubSubType.set)

\* a set of "a" with a global subscriber, a subscriber of "a" and a source
\* subscribed to "b" only
C2_Witness ==
    /\ last.op = "set" /\ last.k = "a"
    /\ Store_hasSubGlobal("s")
    /\ Store_hasSub("s", "a")
    /\ Store_hasSub("a", "b") /\ ~Store_hasSub("a", "a")
    /\ Len(last.log) = 2

\* C3: del(k) on an absent key fails with StoreError, invokes no callback and
\* leaves the entries and the subscriptions as they were; a del(k) that follows
\* a successful del(k) fails.
C3_DelAbsentFails ==
    [][\A k \in Keys :
          /\ (last'.op = "del" /\ last'.k = k /\ ~Store_has(k))
                => /\ last'.err = ErrDel
                   /\ last'.log = <<>>
                   /\ UNCHANGED <<db, pubsub>>
          /\ (last.op = "del" /\ last.k = k /\ last.err = NoError
                /\ last'.op = "del" /\ last'.k = k)
                => last'.err = ErrDel]_vars

\* a failed del of "a" while "a" has a global observer and scoped records
C3_Witness ==
    /\ last.op = "del" /\ last.k = "a" /\ last.err = ErrDel
    /\ pubsub.global # <<>>
    /\ "a" \in DOMAIN pubsub.k_src_cb /\ pubsub.k_src_cb["a"] # <<>>

\* C4: del(k) on a present key completes without error, after which has(k) is
\* false and get(k) is the absent-marker, and stays so until k is set again.
C4_DelPresentRemoves ==
    [][\A k \in Keys :
          /\ (last'.op = "del" /\ last'.k = k /\ Store_has(k))
                => /\ last'.err = NoError
                   /\ ~Store_has(k)'
                   /\ Store_get(k)' = Undefined
          /\ (~Store_has(k) /\ ~(last'.op = "set" /\ last'.k = k))
                => (~Store_has(k)' /\ Store_get(k)' = Undefined)]_vars

\* a successful del of "a", "b" still being present
C4_Witness ==
    /\ last.op = "del" /\ last.k = "a" /\ last.err = NoError
    /\ ~Store_has("a") /\ Store_has("b")

\* C5: del(k) on a present key delivers exactly one event (k, v, 'del'), v the
\* value k held when del was called, to each global subscriber and to each
\* source scoped-subscribed to k when del was called.
C5_DelNotifiesEach ==
    [][\A k \in Keys :
          (last'.op = "del" /\ last'.k = k /\ Store_has(k))
             => OneEventEach(last'.log, pubsub, k, Store_get(k), PubSubType.del)]_vars

\* a successful del of "a" observed by a global and two scoped subscribers
C5_Witness ==
    /\ last.op = "del" /\ last.k = "a" /\ last.err = NoError
    /\ Len(last.log) = 3
    /\ last.log[1].grp = "global"
    /\ last.log[2].grp = "scoped" /\ last.log[3].grp = "scoped"

\* C6: after del(k) has completed, hasSub(src, k) is false for every source and
\* k has no scoped callback left, so that a later set(k, v) reaches none.
C6_DelDropsScoped ==
    (last.op = "del" /\ last.err = NoError)
       => /\ \A src \in Sources : ~Store_hasSub(src, last.k)
          /\ last.k \in DOMAIN pubsub.k_src_cb => pubsub.k_src_cb[last.k] = <<>>

\* C7: hasSub(src, k) implies has(k).
C7_SubOnlyOnPresentKey ==
    \A src \in Sources, k \in Keys : Store_hasSub(src, k) => Store_has(k)

\* C8: sub(src, k, cb, deliverNow) on an absent key fails with StoreError,
\* invokes no callback, leaves the entries and the subscriptions as they were,
\* and hasSub(src, k) is false afterwards.
C8_SubAbsentFails ==
    [][\A src \in Sources, k \in Keys :
          (last'.op = "sub" /\ last'.src = src /\ last'.k = k /\ ~Store_has(k))
             => /\ last'.err = ErrSub
                /\ last'.log = <<>>
                /\ UNCHANGED <<db, pubsub>>
                /\ ~Store_hasSub(src, k)']_vars

\* C9: sub(src, k, cb, true) on a present key invokes cb exactly once, with
\* (k, current value of k, 'sub'), within the call; with deliverNow false the
\* call invokes nothing.
C9_SubNowDeliversOnce ==
    [][\A k \in Keys :
          (last'.op = "sub" /\ last'.k = k /\ Store_has(k))
             => /\ last'.err = NoError
                /\ last'.log =
                      IF last'.now
                      THEN <<Invoke("scoped", last'.src, last'.cb, k,
                                    Store_get(k), PubSubType.sub)>>
                      ELSE <<>>]_vars

\* a sub with deliverNow on "a", which holds "b" and has another subscriber
C9_Witness ==
    /\ last.op = "sub" /\ last.now /\ last.err = NoError
    /\ last.src = "s" /\ last.k = "a" /\ last.cb = "cb2"
    /\ Len(last.log) = 1 /\ last.log[1].v = "b"
    /\ Store_hasSub("a", "a")

\* C10: the 'sub' event of sub(src, k, cb, true) goes to cb only: the call
\* invokes no callback of another scoped subscriber of k or of a global one.
C10_SubNowOnlyToCaller ==
    last.op = "sub"
       => \A i \in 1..Len(last.log) :
             /\ last.log[i].grp = "scoped"
             /\ last.log[i].src = last.src
             /\ last.log[i].cb = last.cb

\* a sub with deliverNow on a key that another source is subscribed to, with
\* a global subscriber registered
C10_Witness ==
    /\ last.op = "sub" /\ last.now /\ last.err = NoError /\ last.log # <<>>
    /\ \E src \in Sources : src # last.src /\ Store_hasSub(src, last.k)
    /\ pubsub.global # <<>>


\* the entries of the ordered Map m whose key is src
EntriesOf(m, src) == SelectSeq(m, LAMBDA e : e[1] = src)

\* the callback an invocation of log was made for is the one registered in ps
FromRegistry(e, ps) ==
    IF e.grp = "global"
    THEN EntriesOf(ps.global, e.src) = <<<<e.src, e.cb>>>>
    ELSE /\ e.k \in DOMAIN ps.k_src_cb
         /\ EntriesOf(ps.k_src_cb[e.k], e.src) = <<<<e.src, e.cb>>>>

\* C11: a (source, key) pair and a global source hold one callback: sub and
\* subGlobal leave the callback they were given as the only one of the source,
\* and an event invokes, for each source, at most one callback, the one the
\* source registered last.
C11_OneCallbackPerSource ==
    [][/\ \A src \in Sources, k \in Keys, cb \in Callbacks :
             (last'.op = "sub" /\ last'.src = src /\ last'.k = k
                /\ last'.cb = cb /\ Store_has(k))
                => EntriesOf(pubsub'.k_src_cb[k], src) = <<<<src, cb>>>>
       /\ \A src \in Sources, cb \in Callbacks :
             (last'.op = "subGlobal" /\ last'.src = src /\ last'.cb = cb)
                => EntriesOf(pubsub'.global, src) = <<<<src, cb>>>>
       /\ last'.op \in {"set", "pub", "del"}
             => /\ \A i \in 1..Len(last'.log) : FromRegistry(last'.log[i], pubsub)
                /\ \A src \in Sources :
                      /\ Cardinality(Delivered(last'.log, "global", src)) <= 1
                      /\ Cardinality(Delivered(last'.log, "scoped", src)) <= 1]_vars

\* the fourth call is a sub of ("s", "a") although "s" is registered on "a"
\* ahead of source "a": it replaced the callback of ("s", "a")
C11_Witness ==
    /\ nops = 4 /\ last.op = "sub" /\ last.src = "s" /\ last.k = "a"
    /\ last.cb = "cb2" /\ last.err = NoError
    /\ pubsub.k_src_cb["a"] = <<<<"s", "cb2">>, <<"a", "cb1">>>>

\* C12: unsub(src, k) on a present key ends the scoped subscription of src on k
\* and keeps those of the other sources; a set, pub or del of k invokes no
\* callback for a source that is not subscribed to k and, when it succeeds,
\* exactly one for each source that is.
C12_UnsubStopsEvents ==
    [][\A src \in Sources, k \in Keys :
          /\ (last'.op = "unsub" /\ last'.src = src /\ last'.k = k /\ Store_has(k))
                => /\ ~Store_hasSub(src, k)'
                   /\ \A o \in Sources \ {src} :
                         /\ Store_hasSub(o, k)' = Store_hasSub(o, k)
                         /\ Store_hasSub(o, k)
                               => MapGet(pubsub'.k_src_cb[k], o)
                                     = MapGet(pubsub.k_src_cb[k], o)
          /\ (last'.op \in {"set", "pub", "del"} /\ last'.k = k)
                => IF Store_hasSub(src, k)
                   THEN last'.err = NoError
                           => ExactlyOnce(last'.log, "scoped", src,
                                          MapGet(pubsub.k_src_cb[k], src))
                   ELSE Delivered(last'.log, "scoped", src) = {}]_vars

\* a set of "a" that reaches source "a" and not "s", which was subscribed to
\* "a" before ("b" never had a subscriber)
C12_Witness ==
    /\ last.op = "set" /\ last.k = "a"
    /\ "s" \in DOMAIN pubsub.src_ks /\ "b" \notin DOMAIN pubsub.k_src_cb
    /\ ~Store_hasSub("s", "a") /\ Store_hasSub("a", "a")
    /\ Delivered(last.log, "scoped", "a") # {}
    /\ Delivered(last.log, "scoped", "s") = {}

\* C13: unsub(src, k) on an absent key fails with StoreError and leaves the
\* entries and the subscriptions as they were.
C13_UnsubAbsentFails ==
    [][\A src \in Sources, k \in Keys :
          (last'.op = "unsub" /\ last'.src = src /\ last'.k = k /\ ~Store_has(k))
             => /\ last'.err = ErrUnsub
                /\ last'.log = <<>>
                /\ UNCHANGED <<db, pubsub>>]_vars

\* a failed unsub while another key is present and has a subscriber
C13_Witness ==
    /\ last.op = "unsub" /\ last.err = ErrUnsub /\ last.k = "a"
    /\ Store_has("b") /\ Store_hasSub("s", "b")
    /\ pubsub.global # <<>>

\* C14: unsub(src, k) on a present key to which src is not subscribed completes
\* without error and changes neither the entries nor any subscription.
C14_UnsubNotSubscribedNoOp ==
    [][\A src \in Sources, k \in Keys :
          (last'.op = "unsub" /\ last'.src = src /\ last'.k = k
             /\ Store_has(k) /\ ~Store_hasSub(src, k))
             => /\ last'.err = NoError
                /\ last'.log = <<>>
                /\ UNCHANGED <<db, pubsub>>]_vars

\* an unsub by "s", which never subscribed, on a key that "a" is subscribed
\* to, with a global subscriber registered
C14_Witness ==
    /\ last.op = "unsub" /\ last.src = "s" /\ last.err = NoError
    /\ "s" \notin DOMAIN pubsub.src_ks
    /\ Store_hasSub("a", last.k)
    /\ pubsub.global # <<>>

\* C15: pub(k) on an absent key fails with StoreError and invokes no callback.
C15_PubAbsentFails ==
    [][\A k \in Keys :
          (last'.op = "pub" /\ last'.k = k /\ ~Store_has(k))
             => (last'.err # NoError /\ last'.log = <<>>)]_vars

\* C16: pub(k) on a present key delivers exactly one event (k, current value
\* of k, 'pub') to each global subscriber and each source scoped-subscribed to
\* k, and changes neither the entries nor the subscriptions.
C16_PubReEmits ==
    [][\A k \in Keys :
          (last'.op = "pub" /\ last'.k = k /\ Store_has(k))
             => /\ last'.err = NoError
                /\ OneEventEach(last'.log, pubsub, k, Store_get(k), PubSubType.pub)
                /\ UNCHANGED <<db, pubsub>>]_vars

\* a pub of "a" observed by a global and two scoped subscribers, "b" present
C16_Witness ==
    /\ last.op = "pub" /\ last.k = "a" /\ Store_has("a") /\ Store_has("b")
    /\ Len(last.log) = 3
    /\ last.log[1].grp = "global" /\ last.log[3].grp = "scoped"
    /\ last.log[1].t = PubSubType.pub

\* src has no subscription at all
Unsubscribed(src) ==
    /\ ~Store_hasSubGlobal(src)
    /\ \A k \in Keys : ~Store_hasSub(src, k)

\* C17: a global subscriber of src stays registered until unsubGlobal(src) or
\* unsubEveryWhere(src) and gets exactly one event, through its callback, from
\* every set, pub and del that takes place, whatever the key; unsubGlobal(src)
\* makes hasSubGlobal(src) false and leaves the scoped subscriptions alone;
\* a source that is not a global subscriber gets no global event.
C17_GlobalSubscription ==
    [][\A src \in Sources :
          /\ last'.op \in {"set", "pub", "del"}
                => IF Store_hasSubGlobal(src) /\ last'.err = NoError
                   THEN \E i \in 1..Len(last'.log) :
                           /\ Delivered(last'.log, "global", src) = {i}
                           /\ last'.log[i].cb = MapGet(pubsub.global, src)
                           /\ last'.log[i].k = last'.k
                   ELSE Delivered(last'.log, "global", src) = {}
          /\ (last'.op = "unsubGlobal" /\ last'.src = src)
                => /\ ~Store_hasSubGlobal(src)'
                   /\ pubsub'.k_src_cb = pubsub.k_src_cb
                   /\ pubsub'.src_ks = pubsub.src_ks
          /\ (Store_hasSubGlobal(src)
                /\ ~(last'.op \in {"unsubGlobal", "unsubEveryWhere"}
                        /\ last'.src = src))
                => Store_hasSubGlobal(src)'
          /\ (~Store_hasSubGlobal(src)
                /\ ~(last'.op = "subGlobal" /\ last'.src = src))
                => ~Store_hasSubGlobal(src)']_vars

\* the second call creates key "b" and is seen by the global subscriber "s"
C17_Witness ==
    /\ nops = 2 /\ last.op = "set" /\ last.k = "b"
    /\ Store_hasSubGlobal("s")
    /\ Len(last.log) = 1 /\ last.log[1].grp = "global" /\ last.log[1].src = "s"

\* C18: unsubEveryWhere(src) leaves src with no subscription, global or scoped;
\* a source with no subscription is invoked by no set, del or pub, and stays
\* without any until it calls sub or subGlobal.
C18_UnsubEveryWhere ==
    [][\A src \in Sources :
          /\ (last'.op = "unsubEveryWhere" /\ last'.src = src) => Unsubscribed(src)'
          /\ Unsubscribed(src)
                => /\ last'.op \in {"set", "del", "pub"}
                         => \A i \in 1..Len(last'.log) : last'.log[i].src # src
                   /\ ~(last'.op \in {"sub", "subGlobal"} /\ last'.src = src)
                         => Unsubscribed(src)']_vars

\* the fifth call is unsubEveryWhere("s"), "s" being subscribed to both keys
C18_Witness ==
    /\ nops = 5 /\ last.op = "unsubEveryWhere" /\ last.src = "s"
    /\ "a" \in DOMAIN pubsub.k_src_cb /\ pubsub.k_src_cb["a"] = <<>>
    /\ "b" \in DOMAIN pubsub.k_src_cb /\ pubsub.k_src_cb["b"] = <<>>
    /\ DOMAIN pubsub.src_ks = {"s"}

\* the invocations made so far for the group grp of the call in flight, in order
Invoked(grp) ==
    SelectSeq(fan.trace, LAMBDA e : e.ev = "invoke" /\ e.grp = grp)

\* the sources of an ordered Map of subscriptions, in the order they subscribed
SourcesOf(m) == [i \in 1..Len(m) |-> m[i][1]]

\* the scoped subscriptions of the key of the call in flight
ScopedOfFan ==
    IF fan.k \in DOMAIN pubsub.k_src_cb THEN pubsub.k_src_cb[fan.k] ELSE <<>>

\* the call in flight has reached PubSub.pub
Publishing == fan.phase # "idle" /\ fan.err = NoError

\* C19: for the event of a set, del or pub, every global subscriber has been
\* invoked and has completed before any scoped subscriber of the key is
\* invoked, and each group is invoked in the order its sources subscribed.
C19_GlobalThenScopedInOrder ==
    Publishing =>
        /\ [i \in 1..Len(Invoked("global")) |-> Invoked("global")[i].src]
              = SourcesOf(pubsub.global)
        /\ Invoked("scoped") # <<>>
              => [i \in 1..Len(Invoked("scoped")) |-> Invoked("scoped")[i].src]
                    = SourcesOf(ScopedOfFan)
        /\ \A j \in 1..Len(fan.trace) :
              (fan.trace[j].ev = "invoke" /\ fan.trace[j].grp = "scoped")
                 => \A i \in 1..Len(pubsub.global) :
                       /\ \E p \in 1..(j - 1) :
                             fan.trace[p] = Ev("invoke", "global",
                                               pubsub.global[i][1],
                                               pubsub.global[i][2])
                       /\ \E q \in 1..(j - 1) :
                             fan.trace[q] = Ev("complete", "global",
                                               pubsub.global[i][1],
                                               pubsub.global[i][2])

\* two global subscribers, the first of them asynchronous, and two scoped
\* subscribers have all been invoked for one event
C19_Witness ==
    /\ Publishing
    /\ Len(Invoked("global")) = 2 /\ Invoked("global")[1].cb = "async"
    /\ Len(Invoked("scoped")) = 2

\* C20: when a callback fails during a fan-out, every callback ordered after it
\* in that fan-out (the later ones of its own group, and the scoped group of
\* the key when a global callback fails) has been invoked by the time the call
\* is settled.
C20_FailureDoesNotStopFanOut ==
    (Publishing /\ fan.phase = "done") =>
        \A p \in 1..Len(fan.trace) :
           fan.trace[p].ev = "fail" =>
              LET e    == fan.trace[p]
                  grpm == IF e.grp = "global" THEN pubsub.global ELSE ScopedOfFan
              IN  /\ \A i \in 1..Len(grpm) :
                        i > MapIndex(grpm, e.src)
                           => \E q \in 1..Len(Invoked(e.grp)) :
                                 Invoked(e.grp)[q].src = grpm[i][1]
                  /\ e.grp = "global"
                        => \A i \in 1..Len(ScopedOfFan) :
                              \E q \in 1..Len(Invoked("scoped")) :
                                 Invoked("scoped")[q].src = ScopedOfFan[i][1]

\* C21: the promise of a set, del or pub is settled (fulfilled or rejected)
\* only when every callback invoked for its event has completed or failed,
\* also when another callback of the same fan-out failed.
C21_SettlesAfterAllCallbacks ==
    fan.result # "pending" =>
        \A grp \in {"global", "scoped"}, src \in Sources :
           ~Pending(fan.trace, grp, src)

\* the events of type t on key k that the subscriber (grp, src) received so far
EventsOf(grp, src, k, t) ==
    SelectSeq(events, LAMBDA e : e.grp = grp /\ e.src = src /\ e.k = k /\ e.t = t)

\* both calls were invoked with the second one before the first was settled,
\* and both are settled
BothSettled(op1, op2) ==
    /\ calls["c1"].op = op1 /\ calls["c2"].op = op2
    /\ calls["c2"].inv \in {"b2b", "overlap"}
    /\ calls["c1"].pc = "done" /\ calls["c2"].pc = "done"

\* C22: of two del(k) on a present key, the second invoked before the first
\* is settled, only one sees the key present: one is fulfilled, the other is
\* rejected with the StoreError of del, and every subscriber of k receives
\* exactly one 'del' event.
C22_ConcurrentDelSerialized ==
    \A k \in Keys :
       (/\ BothSettled("del", "del")
        /\ calls["c1"].k = k /\ calls["c2"].k = k
        /\ calls["c1"].present)
       => /\ ~calls["c2"].present
          /\ calls["c1"].result = "fulfilled"
          /\ calls["c2"].result = "rejected" /\ calls["c2"].err = ErrDel
          /\ \A i \in 1..Len(pubsub.global) :
                Len(EventsOf("global", pubsub.global[i][1], k, PubSubType.del)) = 1
          /\ k \in DOMAIN pubsub.k_src_cb
                => \A i \in 1..Len(pubsub.k_src_cb[k]) :
                      Len(EventsOf("scoped", pubsub.k_src_cb[k][i][1], k,
                                   PubSubType.del)) = 1

\* where a del stands between its reading of the value and its settlement
DelInProgress ==
    {"get_ret", "del_delete", "pub", "pub_g", "pub_get", "pub_s", "pub_ret",
     "unsub_1", "unsub_2", "unsub_3", "unsub_4", "unsub_ret"}

\* C23: while a del(k) stands between its reading of the value and the end of
\* its notification and cleanup, no step of a set or sub on the same key
\* changes the entries, the subscriptions or what subscribers have received.
C23_DelAtomic ==
    [][\A c \in CallIds :
          LET o == OtherCall(c)
          IN  (/\ calls[c].op = "del" /\ calls[c].pc \in DelInProgress
               /\ calls'[o].op \in {"set", "sub"} /\ calls'[o].k = calls[c].k
               /\ calls'[o].pc # calls[o].pc)
              => /\ db' = db
                 /\ pubsub' = pubsub
                 /\ events' = events]_vars

\* the values of the 'set' events on key k that (grp, src) received, in order
SetValues(grp, src, k) ==
    [i \in 1..Len(EventsOf(grp, src, k, PubSubType.set)) |->
        EventsOf(grp, src, k, PubSubType.set)[i].v]

\* C24: of two set calls invoked back to back, the entries of new keys are
\* created in invocation order, and when both are on the same key every
\* subscriber receives the two 'set' events in invocation order, so that the
\* last value it received is the value get returns once both are settled.
C24_BackToBackSetsInOrder ==
    (/\ calls["c1"].op = "set" /\ calls["c2"].op = "set"
     /\ calls["c2"].inv = "b2b"
     /\ calls["c1"].pc = "done" /\ calls["c2"].pc = "done")
    => LET k1 == calls["c1"].k
           k2 == calls["c2"].k
           vs == <<calls["c1"].v, calls["c2"].v>>
       IN  /\ (k1 # k2 /\ ~calls["c1"].present /\ ~calls["c2"].present)
                 => MapIndex(db, k1) < MapIndex(db, k2)
           /\ k1 = k2
                 => /\ Store_get(k1) = vs[2]
                    /\ \A i \in 1..Len(pubsub.global) :
                          SetValues("global", pubsub.global[i][1], k1) = vs
                    /\ k1 \in DOMAIN pubsub.k_src_cb
                          => \A i \in 1..Len(pubsub.k_src_cb[k1]) :
                                SetValues("scoped", pubsub.k_src_cb[k1][i][1], k1) = vs

\* the enumerators that find returned and that were iterated to the end with
\* no set or del since the find call
Finished(i) ==
    /\ iters[i].made /\ ~iters[i].one
    /\ iters[i].done /\ ~iters[i].dirty

\* C25: find() with no selector, iterated to the end with no mutation in
\* between, yields every entry of the store exactly once as (key, value), in
\* insertion order of the keys, and nothing else.
C25_FindAllYieldsEveryEntry ==
    \A i \in IterIds :
        (Finished(i) /\ iters[i].q = SelAll /\ iters[i].f = "id")
            => iters[i].out = db

\* find() was iterated to its end over two entries, after a del and a set
C25_Witness ==
    /\ Finished("i1") /\ iters["i1"].q = SelAll /\ iters["i1"].f = "id"
    /\ Len(iters["i1"].out) = 2
    /\ nops = MaxMut

\* the entries of the Map m whose key is in the set chars, in the Map's order
WithKeyIn(m, chars) == SelectSeq(m, LAMBDA e : e[1] \in chars)

\* C26: find(pattern) with a regular-expression selector, iterated to the end
\* with no mutation in between, yields exactly the entries whose key matches
\* the pattern, in the order of find(); the value plays no part.
C26_FindPatternYieldsMatchingKeys ==
    \A i \in IterIds :
        (Finished(i) /\ iters[i].q.kind = "re")
            => iters[i].out = WithKeyIn(db, iters[i].q.chars)

\* the part of C26 that the code keeps: a yielded entry's key matches
C26_OnlyMatchingKeys ==
    \A i \in IterIds :
        (iters[i].made /\ iters[i].q.kind = "re")
            => \A n \in 1..Len(iters[i].out) : iters[i].out[n][1] \in iters[i].q.chars

\* the entries of the Map m with the mapper f applied to each value
Mapped(m, f) == [n \in 1..Len(m) |-> <<m[n][1], Apply(f, m[n][2])>>]

\* C27: find(p, f) with a predicate p and a mapper f, iterated to the end with
\* no mutation in between, yields (k, f(v)) for exactly the entries (k, v) for
\* which p((k, f(v))) holds; an omitted f is the identity.
C27_PredicateSeesMappedValue ==
    \A i \in IterIds :
        (Finished(i) /\ iters[i].q.kind = "fn")
            => iters[i].out =
                  SelectSeq(Mapped(db, iters[i].f), LAMBDA kv : kv \in iters[i].q.acc)

\* a predicate on the value with a mapper that changes it: of two entries the
\* one whose raw value the predicate rejects is the one yielded
C27_Witness ==
    /\ Finished("i1") /\ iters["i1"].q.kind = "fn" /\ iters["i1"].f = "swap"
    /\ Len(db) = 2 /\ Len(iters["i1"].out) = 1
    /\ \E n \in 1..2 : /\ db[n] \notin iters["i1"].q.acc
                       /\ iters["i1"].out[1][1] = db[n][1]

\* the entries of the Map m that the selector q accepts, in the Map's order
Matching(m, q) ==
    SelectSeq(m, LAMBDA e : \/ q.kind = "all"
                            \/ q.kind = "re" /\ e[1] \in q.chars
                            \/ q.kind = "fn" /\ e \in q.acc)

\* C28: findOne(selector) returns the value of the first entry that
\* find(selector) would yield, which is the first entry in find's order that
\* the selector accepts unless the selector is a RegExp object left with a
\* lastIndex by an earlier call, or undefined when no entry matches (also on
\* an empty store); it changes neither the entries nor the subscriptions nor
\* what an enumerator has yielded.
C28_FindOneFirstMatchOrUndefined ==
    [][\A i \in IterIds :
          (~iters[i].made /\ iters'[i].made /\ iters'[i].one)
              => LET q     == iters'[i].q
                     li    == LastIndex(iters'[i].same)
                     first == Scan(db, 0, li, q, "id")
                     found == Matching(db, q)
                 IN  /\ iters'[i].ret = IF first.done THEN Undefined ELSE first.kv[2]
                     /\ found = <<>> => iters'[i].ret = Undefined
                     /\ (found # <<>> /\ li = 0) => iters'[i].ret = found[1][2]
                     /\ db' = db
                     /\ pubsub' = pubsub
                     /\ \A j \in IterIds \ {i} :
                           /\ iters'[j].out = iters[j].out
                           /\ iters'[j].pos = iters[j].pos
                           /\ iters'[j].done = iters[j].done]_vars

\* findOne returned the value of the second entry, the first one not matching
C28_Witness ==
    /\ iters["i1"].one /\ ~iters["i1"].dirty
    /\ Len(db) = 2 /\ db[1][2] # db[2][2]
    /\ iters["i1"].ret = db[2][2]
    /\ Matching(db, iters["i1"].q) = <<db[2]>>

\* findOne returned undefined on a store that holds an entry
C28_WitnessNone ==
    /\ iters["i1"].one /\ ~iters["i1"].dirty
    /\ Len(db) > 0
    /\ iters["i1"].ret = Undefined

RECURSIVE Remaining(_, _, _, _, _)
\* what the next() calls of an enumerator will yield on the Map m from pos on
Remaining(m, pos, li, q, f) ==
    LET r == Scan(m, pos, li, q, f)
    IN  IF r.done THEN <<>> ELSE <<r.kv>> \o Remaining(m, r.pos, r.li, q, f)

\* what enumerator i will yield from the state it is in
RemainingOf(i, m, its) == Remaining(m, its[i].pos, its[i].li, its[i].q, its[i].f)

\* C29: the sequence find returned enumerates the entries existing when find
\* was called: a set of a new key, an overwrite or a del performed before the
\* iteration ends changes neither which entries the enumerator will yield nor
\* their values.
C29_FindEnumeratesSnapshot ==
    [][db' # db =>
          \A i \in IterIds :
              (iters[i].made /\ ~iters[i].one /\ ~iters[i].done)
                  => RemainingOf(i, db', iters') = RemainingOf(i, db, iters)]_vars

\* the part of C29 that the code keeps: an entry that was yielded is not
\* taken back or changed by a later set or del
C29_YieldedStays ==
    [][db' # db => \A i \in IterIds : iters'[i].out = iters[i].out]_vars

\* a step that is a next() call on enumerator i
NextCalled(i) ==
    /\ iters[i].made /\ ~iters[i].one
    /\ db' = db
    /\ \/ iters'[i].pos # iters[i].pos
       \/ iters'[i].out # iters[i].out
       \/ iters'[i].done # iters[i].done
       \/ iters'[i].again # iters[i].again

\* once enumerator i has reported done, next() reports done and yields nothing
DoneStaysDone(i) ==
    iters[i].done => (iters'[i].done /\ iters'[i].out = iters[i].out)

\* C30: each find call returns a fresh single-pass enumerator: a next() on
\* one enumerator does not change what the enumerator of another find call
\* yields, and once an enumerator has reported done every further next()
\* reports done and yields nothing.
C30_EnumeratorsIndependent ==
    [][\A i \in IterIds :
          NextCalled(i)
              => /\ DoneStaysDone(i)
                 /\ \A j \in IterIds \ {i} :
                       (iters[j].made /\ ~iters[j].one)
                           => RemainingOf(j, db', iters') = RemainingOf(j, db, iters)]_vars

\* the part of C30 that the code keeps: single pass, and independence of two
\* enumerators that were not given the same RegExp object with the g flag
C30_IndependentUnlessSameRegExp ==
    [][\A i \in IterIds :
          NextCalled(i)
              => /\ DoneStaysDone(i)
                 /\ \A j \in IterIds \ {i} :
                       (iters[j].made /\ ~iters[j].one
                            /\ ~(j \in SameObject(i) /\ iters[i].q.g))
                           => RemainingOf(j, db', iters') = RemainingOf(j, db, iters)]_vars

\* the key's registration map holds a callback for src
Registered(ps, src, k) == k \in DOMAIN ps.k_src_cb /\ MapHas(ps.k_src_cb[k], src)

\* the source's key-set contains k
InKeySet(ps, src, k) == src \in DOMAIN ps.src_ks /\ k \in ps.src_ks[src]

\* the two scoped mappings of the router agree, and with them hasSub and the
\* callbacks an event on a key invokes
MappingsAgree(ps) ==
    \A src \in Sources \cup Keys \cup Values, k \in Keys \cup Values :
        /\ Registered(ps, src, k) <=> InKeySet(ps, src, k)
        /\ PubSub_has(ps, src, k) <=> Registered(ps, src, k)

\* no call is between its invocation and its settlement
NoCallInProgress == \A c \in CallIds : calls[c].pc \in {"idle", "done"}

\* C31: whenever no operation is in progress the router's two scoped mappings
\* agree, so that hasSub(src, k) is true exactly when a callback of src would
\* be invoked by an event on k; also after concurrently invoked sub and unsub
\* calls have all completed.
C31_ScopedMappingsAgree == NoCallInProgress => MappingsAgree(pubsub)

\* the part of C31 that the code keeps: between calls that are awaited one
\* after the other the mappings agree
C31_AgreeBetweenAwaitedCalls == MappingsAgree(pubsub)

\* the callback registered for (src, k), or None
CallbackOf(ps, src, k) ==
    IF Registered(ps, src, k) THEN MapGet(ps.k_src_cb[k], src) ELSE None

\* C32: del(k) leaves every scoped subscription on keys other than k and every
\* global subscription unchanged, for every source name and every stored
\* value, also when the value of k is another key's string and a source is
\* named like k.
C32_DelLeavesOtherSubscriptions ==
    [][last'.op = "del"
          => /\ pubsub'.global = pubsub.global
             /\ \A k \in Keys \ {last'.k}, src \in Sources :
                   /\ CallbackOf(pubsub', src, k) = CallbackOf(pubsub, src, k)
                   /\ PubSub_has(pubsub', src, k) <=> PubSub_has(pubsub, src, k)]_vars

\* the part of C32 that the code keeps: the global subscriptions
C32_DelLeavesGlobal ==
    [][last'.op = "del" => pubsub'.global = pubsub.global]_vars

\* the invocations an event makes for sources other than src, in order
ToOthers(ps, src, k, v, t) ==
    SelectSeq(PubSub_pub(ps, k, v, t), LAMBDA e : e.src # src)

\* C33: unsubEveryWhere(src) never fails, leaves the entries unchanged,
\* delivers no event, and leaves the global and scoped subscriptions of every
\* other source unchanged, so that an event on any key invokes for the other
\* sources the callbacks it invoked before, in the same order.
C33_UnsubEveryWhereFrame ==
    [][last'.op = "unsubEveryWhere"
          => /\ last'.err = NoError
             /\ last'.log = <<>>
             /\ db' = db
             /\ \A src \in Sources \ {last'.src} :
                   /\ Store_hasSubGlobal(src)' <=> Store_hasSubGlobal(src)
                   /\ MapGet(pubsub'.global, src) = MapGet(pubsub.global, src)
                   /\ \A k \in Keys :
                         /\ CallbackOf(pubsub', src, k) = CallbackOf(pubsub, src, k)
                         /\ PubSub_has(pubsub', src, k) <=> PubSub_has(pubsub, src, k)
             /\ \A k \in Keys, t \in {"set", "pub", "del"} :
                   ToOthers(pubsub', last'.src, k, "x", t)
                      = ToOthers(pubsub, last'.src, k, "x", t)]_vars

\* unsubEveryWhere("s") was the fifth call; "s" had a subscription, and
\* "a" is still a global subscriber and a subscriber of key "a"
C33_Witness ==
    /\ nops = 5 /\ last.op = "unsubEveryWhere" /\ last.src = "s"
    /\ "s" \in DOMAIN pubsub.src_ks /\ pubsub.src_ks["s"] = {}
    /\ Store_hasSubGlobal("a")
    /\ Store_hasSub("a", "a")
    /\ Len(ToOthers(pubsub, "s", "a", "x", "set")) = 2

\* the registration map of key k, empty when the key has none
ScopedOf(ps, k) == IF k \in DOMAIN ps.k_src_cb THEN ps.k_src_cb[k] ELSE <<>>

\* registering (src, cb) in the Map m keeps the notification order of m when
\* src is in it, and puts src last when it is not
PlaceKept(m, n, src, cb) ==
    /\ MapGet(n, src) = cb
    /\ IF MapHas(m, src)
       THEN SourcesOf(n) = SourcesOf(m)
       ELSE n = Append(m, <<src, cb>>)

\* C34: a source's place in the notification order of a key, or of the global
\* registry, is fixed by its first subscription: sub(src, k, cb2) on a
\* subscribed (src, k) replaces the callback without moving src, whereas after
\* unsub(src, k), which takes src out of the order and leaves the order of
\* the others, sub(src, k, cb) places src last.
C34_PlaceFixedByFirstSubscription ==
    [][/\ (last'.op = "sub" /\ last'.err = NoError)
             => PlaceKept(ScopedOf(pubsub, last'.k), ScopedOf(pubsub', last'.k),
                          last'.src, last'.cb)
       /\ last'.op = "subGlobal"
             => PlaceKept(pubsub.global, pubsub'.global, last'.src, last'.cb)
       /\ (last'.op = "unsub" /\ last'.err = NoError)
             => ScopedOf(pubsub', last'.k)
                   = SelectSeq(ScopedOf(pubsub, last'.k), LAMBDA e : e[1] # last'.src)
       /\ last'.op = "unsubGlobal"
             => pubsub'.global
                   = SelectSeq(pubsub.global, LAMBDA e : e[1] # last'.src)]_vars

\* "a" subscribed to key "b" first and "s" second; the fourth call replaced
\* the callback of "a", which is still notified before "s"
C34_Witness ==
    /\ nops = 4 /\ last.op = "sub" /\ last.src = "a" /\ last.k = "b"
    /\ last.cb = "cb2"
    /\ SourcesOf(ScopedOf(pubsub, "b")) = <<"a", "s">>
    /\ MapGet(pubsub.k_src_cb["b"], "a") = "cb2"

\* "s" subscribed to key "a" first, unsubscribed and subscribed again: it is
\* notified after "a"
C34_WitnessLast ==
    /\ nops = 5 /\ last.op = "sub" /\ last.src = "s" /\ last.k = "a"
    /\ SourcesOf(ScopedOf(pubsub, "a")) = <<"a", "s">>
    /\ pubsub.src_ks["s"] = {"a"} /\ pubsub.src_ks["a"] = {"a"}

=============================================================================
